---- MODULE Spec2Model ----
(***************************************************************************)
(* Tier capability resolver of the voice-agent dashboard                   *)
(* (frontend/src/lib/languages.ts): the static language tables, the        *)
(* functions that resolve a pricing tier to its languages, and a caller    *)
(* that applies them to every language code and tier; and the create-agent *)
(* wizard (CreateAgentPage) that uses the resolver: its form, its step     *)
(* counter, its language-reset effect and its submission.                  *)
(***************************************************************************)
EXTENDS Integers, Sequences, FiniteSets, TLC

VARIABLES
  call,        \* the latest call of a resolver function: its arguments and result
  memory,      \* the three arrays of lib/languages.ts as they are now
  client,      \* the API client's surroundings: token stored, location, console, last outcome
  tiers,       \* PRICING_TIERS, the table the wizard was built with
  page,        \* "wizard", "leaving" (router.push called) or "left" (unmounted)
  step,        \* useState(1): the wizard step on display
  form,        \* react-hook-form values: pricingTier, language, name, ...
  workspaces,  \* data of the ["workspaces"] query: ids of the fetched list
  effectDue,   \* the language-reset effect has to run (mount, or a dependency changed)
  writes,      \* form.setValue calls of the effect since the user's last selection
  downgrade,   \* the last selection was premium -> budget with a language budget lacks
  pendingNext, \* handleNext calls suspended at `await validateStep(step)`
  toast,       \* the toast shown last
  submits,     \* handleSubmit(onSubmit) calls in progress, oldest first
  isPending,   \* createAgentMutation.isPending
  prevented,   \* the last native submit event of the form had preventDefault called
  gatePassed,  \* Next was pressed at least once while the workspace list was not empty
  lastSettled  \* the request that settled last, and how: "create-ok", "assign-failed", ...

wizard == <<tiers, page, step, form, workspaces, effectDue, writes, downgrade,
            pendingNext, toast, submits, isPending, prevented, gatePassed,
            lastSettled>>

vars == <<call, memory, client, wizard>>

(***************************************************************************)
(* The static tables.  A Language is {code, name, whisperCode}.            *)
(***************************************************************************)
COMMON_LANGUAGES ==
  <<
     [code |-> "en-US", name |-> "English (US)", whisperCode |-> "en"],
     [code |-> "en-GB", name |-> "English (UK)", whisperCode |-> "en"],
     [code |-> "en-AU", name |-> "English (Australia)", whisperCode |-> "en"],
     [code |-> "es-ES", name |-> "Spanish (Spain)", whisperCode |-> "es"],
     [code |-> "es-MX", name |-> "Spanish (Mexico)", whisperCode |-> "es"],
     [code |-> "fr-FR", name |-> "French", whisperCode |-> "fr"],
     [code |-> "fr-CA", name |-> "French (Canada)", whisperCode |-> "fr"],
     [code |-> "de-DE", name |-> "German", whisperCode |-> "de"],
     [code |-> "it-IT", name |-> "Italian", whisperCode |-> "it"],
     [code |-> "pt-BR", name |-> "Portuguese (Brazil)", whisperCode |-> "pt"],
     [code |-> "pt-PT", name |-> "Portuguese (Portugal)", whisperCode |-> "pt"],
     [code |-> "nl-NL", name |-> "Dutch", whisperCode |-> "nl"],
     [code |-> "pl-PL", name |-> "Polish", whisperCode |-> "pl"],
     [code |-> "ru-RU", name |-> "Russian", whisperCode |-> "ru"],
     [code |-> "ja-JP", name |-> "Japanese", whisperCode |-> "ja"],
     [code |-> "ko-KR", name |-> "Korean", whisperCode |-> "ko"],
     [code |-> "zh-CN", name |-> "Chinese (Simplified)", whisperCode |-> "zh"],
     [code |-> "zh-TW", name |-> "Chinese (Traditional)", whisperCode |-> "zh"],
     [code |-> "hi-IN", name |-> "Hindi", whisperCode |-> "hi"],
     [code |-> "tr-TR", name |-> "Turkish", whisperCode |-> "tr"],
     [code |-> "vi-VN", name |-> "Vietnamese", whisperCode |-> "vi"],
     [code |-> "th-TH", name |-> "Thai", whisperCode |-> "th"],
     [code |-> "id-ID", name |-> "Indonesian", whisperCode |-> "id"],
     [code |-> "sv-SE", name |-> "Swedish", whisperCode |-> "sv"],
     [code |-> "da-DK", name |-> "Danish", whisperCode |-> "da"],
     [code |-> "no-NO", name |-> "Norwegian", whisperCode |-> "no"],
     [code |-> "fi-FI", name |-> "Finnish", whisperCode |-> "fi"],
     [code |-> "cs-CZ", name |-> "Czech", whisperCode |-> "cs"],
     [code |-> "el-GR", name |-> "Greek", whisperCode |-> "el"],
     [code |-> "hu-HU", name |-> "Hungarian", whisperCode |-> "hu"],
     [code |-> "ro-RO", name |-> "Romanian", whisperCode |-> "ro"],
     [code |-> "uk-UA", name |-> "Ukrainian", whisperCode |-> "uk"],
     [code |-> "bg-BG", name |-> "Bulgarian", whisperCode |-> "bg"],
     [code |-> "sk-SK", name |-> "Slovak", whisperCode |-> "sk"],
     [code |-> "ms-MY", name |-> "Malay", whisperCode |-> "ms"]
  >>

PREMIUM_ADDITIONAL_LANGUAGES ==
  <<
     [code |-> "ar-SA", name |-> "Arabic", whisperCode |-> "ar"],
     [code |-> "he-IL", name |-> "Hebrew", whisperCode |-> "he"],
     [code |-> "fa-IR", name |-> "Persian (Farsi)", whisperCode |-> "fa"],
     [code |-> "ur-PK", name |-> "Urdu", whisperCode |-> "ur"],
     [code |-> "bn-BD", name |-> "Bengali", whisperCode |-> "bn"],
     [code |-> "ta-IN", name |-> "Tamil", whisperCode |-> "ta"],
     [code |-> "te-IN", name |-> "Telugu", whisperCode |-> "te"],
     [code |-> "mr-IN", name |-> "Marathi", whisperCode |-> "mr"],
     [code |-> "gu-IN", name |-> "Gujarati", whisperCode |-> "gu"],
     [code |-> "kn-IN", name |-> "Kannada", whisperCode |-> "kn"],
     [code |-> "ml-IN", name |-> "Malayalam", whisperCode |-> "ml"],
     [code |-> "ne-NP", name |-> "Nepali", whisperCode |-> "ne"],
     [code |-> "si-LK", name |-> "Sinhala", whisperCode |-> "si"],
     [code |-> "tl-PH", name |-> "Tagalog", whisperCode |-> "tl"],
     [code |-> "sw-KE", name |-> "Swahili", whisperCode |-> "sw"],
     [code |-> "af-ZA", name |-> "Afrikaans", whisperCode |-> "af"],
     [code |-> "hr-HR", name |-> "Croatian", whisperCode |-> "hr"],
     [code |-> "sr-RS", name |-> "Serbian", whisperCode |-> "sr"],
     [code |-> "sl-SI", name |-> "Slovenian", whisperCode |-> "sl"],
     [code |-> "lt-LT", name |-> "Lithuanian", whisperCode |-> "lt"],
     [code |-> "lv-LV", name |-> "Latvian", whisperCode |-> "lv"],
     [code |-> "et-EE", name |-> "Estonian", whisperCode |-> "et"],
     [code |-> "is-IS", name |-> "Icelandic", whisperCode |-> "is"],
     [code |-> "mk-MK", name |-> "Macedonian", whisperCode |-> "mk"],
     [code |-> "bs-BA", name |-> "Bosnian", whisperCode |-> "bs"],
     [code |-> "sq-AL", name |-> "Albanian", whisperCode |-> "sq"],
     [code |-> "az-AZ", name |-> "Azerbaijani", whisperCode |-> "az"],
     [code |-> "kk-KZ", name |-> "Kazakh", whisperCode |-> "kk"],
     [code |-> "hy-AM", name |-> "Armenian", whisperCode |-> "hy"],
     [code |-> "ka-GE", name |-> "Georgian", whisperCode |-> "ka"],
     [code |-> "be-BY", name |-> "Belarusian", whisperCode |-> "be"],
     [code |-> "gl-ES", name |-> "Galician", whisperCode |-> "gl"],
     [code |-> "ca-ES", name |-> "Catalan", whisperCode |-> "ca"],
     [code |-> "eu-ES", name |-> "Basque", whisperCode |-> "eu"],
     [code |-> "cy-GB", name |-> "Welsh", whisperCode |-> "cy"],
     [code |-> "mt-MT", name |-> "Maltese", whisperCode |-> "mt"],
     [code |-> "mi-NZ", name |-> "Maori", whisperCode |-> "mi"]
  >>

BALANCED_ADDITIONAL_LANGUAGES ==
  <<
     [code |-> "ar-SA", name |-> "Arabic", whisperCode |-> "ar"],
     [code |-> "he-IL", name |-> "Hebrew", whisperCode |-> "he"],
     [code |-> "fa-IR", name |-> "Persian (Farsi)", whisperCode |-> "fa"],
     [code |-> "bn-BD", name |-> "Bengali", whisperCode |-> "bn"],
     [code |-> "ta-IN", name |-> "Tamil", whisperCode |-> "ta"],
     [code |-> "te-IN", name |-> "Telugu", whisperCode |-> "te"],
     [code |-> "mr-IN", name |-> "Marathi", whisperCode |-> "mr"],
     [code |-> "gu-IN", name |-> "Gujarati", whisperCode |-> "gu"],
     [code |-> "kn-IN", name |-> "Kannada", whisperCode |-> "kn"],
     [code |-> "ml-IN", name |-> "Malayalam", whisperCode |-> "ml"],
     [code |-> "tl-PH", name |-> "Tagalog", whisperCode |-> "tl"],
     [code |-> "sw-KE", name |-> "Swahili", whisperCode |-> "sw"],
     [code |-> "af-ZA", name |-> "Afrikaans", whisperCode |-> "af"],
     [code |-> "hr-HR", name |-> "Croatian", whisperCode |-> "hr"],
     [code |-> "sr-RS", name |-> "Serbian", whisperCode |-> "sr"],
     [code |-> "sl-SI", name |-> "Slovenian", whisperCode |-> "sl"],
     [code |-> "lt-LT", name |-> "Lithuanian", whisperCode |-> "lt"],
     [code |-> "lv-LV", name |-> "Latvian", whisperCode |-> "lv"],
     [code |-> "et-EE", name |-> "Estonian", whisperCode |-> "et"],
     [code |-> "is-IS", name |-> "Icelandic", whisperCode |-> "is"],
     [code |-> "ca-ES", name |-> "Catalan", whisperCode |-> "ca"]
  >>

NameChars ==
  ("English (US)" :> <<"E", "n", "g", "l", "i", "s", "h", " ", "(", "U", "S", ")">>) @@
  ("English (UK)" :> <<"E", "n", "g", "l", "i", "s", "h", " ", "(", "U", "K", ")">>) @@
  ("English (Australia)" :> <<"E", "n", "g", "l", "i", "s", "h", " ", "(", "A", "u", "s", "t", "r", "a", "l", "i", "a", ")">>) @@
  ("Spanish (Spain)" :> <<"S", "p", "a", "n", "i", "s", "h", " ", "(", "S", "p", "a", "i", "n", ")">>) @@
  ("Spanish (Mexico)" :> <<"S", "p", "a", "n", "i", "s", "h", " ", "(", "M", "e", "x", "i", "c", "o", ")">>) @@
  ("French" :> <<"F", "r", "e", "n", "c", "h">>) @@
  ("French (Canada)" :> <<"F", "r", "e", "n", "c", "h", " ", "(", "C", "a", "n", "a", "d", "a", ")">>) @@
  ("German" :> <<"G", "e", "r", "m", "a", "n">>) @@
  ("Italian" :> <<"I", "t", "a", "l", "i", "a", "n">>) @@
  ("Portuguese (Brazil)" :> <<"P", "o", "r", "t", "u", "g", "u", "e", "s", "e", " ", "(", "B", "r", "a", "z", "i", "l", ")">>) @@
  ("Portuguese (Portugal)" :> <<"P", "o", "r", "t", "u", "g", "u", "e", "s", "e", " ", "(", "P", "o", "r", "t", "u", "g", "a", "l", ")">>) @@
  ("Dutch" :> <<"D", "u", "t", "c", "h">>) @@
  ("Polish" :> <<"P", "o", "l", "i", "s", "h">>) @@
  ("Russian" :> <<"R", "u", "s", "s", "i", "a", "n">>) @@
  ("Japanese" :> <<"J", "a", "p", "a", "n", "e", "s", "e">>) @@
  ("Korean" :> <<"K", "o", "r", "e", "a", "n">>) @@
  ("Chinese (Simplified)" :> <<"C", "h", "i", "n", "e", "s", "e", " ", "(", "S", "i", "m", "p", "l", "i", "f", "i", "e", "d", ")">>) @@
  ("Chinese (Traditional)" :> <<"C", "h", "i", "n", "e", "s", "e", " ", "(", "T", "r", "a", "d", "i", "t", "i", "o", "n", "a", "l", ")">>) @@
  ("Hindi" :> <<"H", "i", "n", "d", "i">>) @@
  ("Turkish" :> <<"T", "u", "r", "k", "i", "s", "h">>) @@
  ("Vietnamese" :> <<"V", "i", "e", "t", "n", "a", "m", "e", "s", "e">>) @@
  ("Thai" :> <<"T", "h", "a", "i">>) @@
  ("Indonesian" :> <<"I", "n", "d", "o", "n", "e", "s", "i", "a", "n">>) @@
  ("Swedish" :> <<"S", "w", "e", "d", "i", "s", "h">>) @@
  ("Danish" :> <<"D", "a", "n", "i", "s", "h">>) @@
  ("Norwegian" :> <<"N", "o", "r", "w", "e", "g", "i", "a", "n">>) @@
  ("Finnish" :> <<"F", "i", "n", "n", "i", "s", "h">>) @@
  ("Czech" :> <<"C", "z", "e", "c", "h">>) @@
  ("Greek" :> <<"G", "r", "e", "e", "k">>) @@
  ("Hungarian" :> <<"H", "u", "n", "g", "a", "r", "i", "a", "n">>) @@
  ("Romanian" :> <<"R", "o", "m", "a", "n", "i", "a", "n">>) @@
  ("Ukrainian" :> <<"U", "k", "r", "a", "i", "n", "i", "a", "n">>) @@
  ("Bulgarian" :> <<"B", "u", "l", "g", "a", "r", "i", "a", "n">>) @@
  ("Slovak" :> <<"S", "l", "o", "v", "a", "k">>) @@
  ("Malay" :> <<"M", "a", "l", "a", "y">>) @@
  ("Arabic" :> <<"A", "r", "a", "b", "i", "c">>) @@
  ("Hebrew" :> <<"H", "e", "b", "r", "e", "w">>) @@
  ("Persian (Farsi)" :> <<"P", "e", "r", "s", "i", "a", "n", " ", "(", "F", "a", "r", "s", "i", ")">>) @@
  ("Urdu" :> <<"U", "r", "d", "u">>) @@
  ("Bengali" :> <<"B", "e", "n", "g", "a", "l", "i">>) @@
  ("Tamil" :> <<"T", "a", "m", "i", "l">>) @@
  ("Telugu" :> <<"T", "e", "l", "u", "g", "u">>) @@
  ("Marathi" :> <<"M", "a", "r", "a", "t", "h", "i">>) @@
  ("Gujarati" :> <<"G", "u", "j", "a", "r", "a", "t", "i">>) @@
  ("Kannada" :> <<"K", "a", "n", "n", "a", "d", "a">>) @@
  ("Malayalam" :> <<"M", "a", "l", "a", "y", "a", "l", "a", "m">>) @@
  ("Nepali" :> <<"N", "e", "p", "a", "l", "i">>) @@
  ("Sinhala" :> <<"S", "i", "n", "h", "a", "l", "a">>) @@
  ("Tagalog" :> <<"T", "a", "g", "a", "l", "o", "g">>) @@
  ("Swahili" :> <<"S", "w", "a", "h", "i", "l", "i">>) @@
  ("Afrikaans" :> <<"A", "f", "r", "i", "k", "a", "a", "n", "s">>) @@
  ("Croatian" :> <<"C", "r", "o", "a", "t", "i", "a", "n">>) @@
  ("Serbian" :> <<"S", "e", "r", "b", "i", "a", "n">>) @@
  ("Slovenian" :> <<"S", "l", "o", "v", "e", "n", "i", "a", "n">>) @@
  ("Lithuanian" :> <<"L", "i", "t", "h", "u", "a", "n", "i", "a", "n">>) @@
  ("Latvian" :> <<"L", "a", "t", "v", "i", "a", "n">>) @@
  ("Estonian" :> <<"E", "s", "t", "o", "n", "i", "a", "n">>) @@
  ("Icelandic" :> <<"I", "c", "e", "l", "a", "n", "d", "i", "c">>) @@
  ("Macedonian" :> <<"M", "a", "c", "e", "d", "o", "n", "i", "a", "n">>) @@
  ("Bosnian" :> <<"B", "o", "s", "n", "i", "a", "n">>) @@
  ("Albanian" :> <<"A", "l", "b", "a", "n", "i", "a", "n">>) @@
  ("Azerbaijani" :> <<"A", "z", "e", "r", "b", "a", "i", "j", "a", "n", "i">>) @@
  ("Kazakh" :> <<"K", "a", "z", "a", "k", "h">>) @@
  ("Armenian" :> <<"A", "r", "m", "e", "n", "i", "a", "n">>) @@
  ("Georgian" :> <<"G", "e", "o", "r", "g", "i", "a", "n">>) @@
  ("Belarusian" :> <<"B", "e", "l", "a", "r", "u", "s", "i", "a", "n">>) @@
  ("Galician" :> <<"G", "a", "l", "i", "c", "i", "a", "n">>) @@
  ("Catalan" :> <<"C", "a", "t", "a", "l", "a", "n">>) @@
  ("Basque" :> <<"B", "a", "s", "q", "u", "e">>) @@
  ("Welsh" :> <<"W", "e", "l", "s", "h">>) @@
  ("Maltese" :> <<"M", "a", "l", "t", "e", "s", "e">>) @@
  ("Maori" :> <<"M", "a", "o", "r", "i">>)

(***************************************************************************)
(* String.prototype.localeCompare.  TLA+ strings are atomic, so NameChars  *)
(* above spells each display name; the comparison is the multi-level       *)
(* collation of the root locale: primary weights first (white space, then  *)
(* punctuation, then letters regardless of case), the case of the letters  *)
(* breaking ties (lower case first).                                       *)
(***************************************************************************)
Letters == <<"a", "b", "c", "d", "e", "f", "g", "h", "i", "j", "k", "l", "m",
             "n", "o", "p", "q", "r", "s", "t", "u", "v", "w", "x", "y", "z">>

Capitals == <<"A", "B", "C", "D", "E", "F", "G", "H", "I", "J", "K", "L", "M",
              "N", "O", "P", "Q", "R", "S", "T", "U", "V", "W", "X", "Y", "Z">>

Punctuation == <<" ", "(", ")">>

IndexIn(seq, ch) == CHOOSE i \in 1..Len(seq) : seq[i] = ch

IsCapital(ch) == \E i \in 1..Len(Capitals) : Capitals[i] = ch

PrimaryWeight(ch) ==
  IF \E i \in 1..Len(Punctuation) : Punctuation[i] = ch
    THEN IndexIn(Punctuation, ch)
    ELSE Len(Punctuation) +
         (IF IsCapital(ch) THEN IndexIn(Capitals, ch) ELSE IndexIn(Letters, ch))

TertiaryWeight(ch) == IF IsCapital(ch) THEN 1 ELSE 0

PrimaryKey == [n \in DOMAIN NameChars |->
                 [i \in 1..Len(NameChars[n]) |-> PrimaryWeight(NameChars[n][i])]]

TertiaryKey == [n \in DOMAIN NameChars |->
                  [i \in 1..Len(NameChars[n]) |-> TertiaryWeight(NameChars[n][i])]]

RECURSIVE CompareKeys(_, _)
CompareKeys(s, t) ==
  IF s = <<>> THEN (IF t = <<>> THEN 0 ELSE -1)
  ELSE IF t = <<>> THEN 1
  ELSE IF Head(s) < Head(t) THEN -1
  ELSE IF Head(s) > Head(t) THEN 1
  ELSE CompareKeys(Tail(s), Tail(t))

CompareNames(a, b) ==
  LET p == CompareKeys(PrimaryKey[a], PrimaryKey[b])
  IN  IF p # 0 THEN p ELSE CompareKeys(TertiaryKey[a], TertiaryKey[b])

\* The comparison is a function of the two names: tabulated once.
Collation ==
  [a \in DOMAIN NameChars |-> [b \in DOMAIN NameChars |-> CompareNames(a, b)]]

localeCompare(a, b) == Collation[a][b]

(***************************************************************************)
(* Array.prototype.sort((a, b) => a.name.localeCompare(b.name)) on a copy  *)
(* of the array.  The sort is stable, which fixes its result: an element   *)
(* lands after the elements that compare less than it and after the        *)
(* elements before it in the array that compare equal to it.               *)
(***************************************************************************)
SortRank(arr) ==
  [i \in 1..Len(arr) |->
     1 + Cardinality({j \in 1..Len(arr) :
           \/ localeCompare(arr[j].name, arr[i].name) < 0
           \/ localeCompare(arr[j].name, arr[i].name) = 0 /\ j < i})]

SortPlace(arr, rank) ==
  [k \in 1..Len(arr) |-> arr[CHOOSE i \in 1..Len(arr) : rank[i] = k]]

\* Variant: the copy is returned without sorting it.
SortByNameSkipped(arr) == arr

SortByName(arr) == SortPlace(arr, SortRank(arr))

(***************************************************************************)
(* PricingTierType, and the tier identifiers outside it that a caller can  *)
(* pass at run time (they reach the default branch of the switch).         *)
(***************************************************************************)
PricingTierType == {"budget", "balanced", "premium-mini", "premium"}

UnrecognizedTiers == {"enterprise", ""}

TierInputs == PricingTierType \cup UnrecognizedTiers

(***************************************************************************)
(* getLanguagesForTier: the switch over the tier identifier.  The default  *)
(* branch returns the table itself, in table order.                        *)
(***************************************************************************)
\* Variant: the budget branch also merges the balanced additions.
LanguagesForTierBudgetWide ==
  [tier \in TierInputs |->
     CASE tier \in {"budget", "balanced"} ->
            SortByName(COMMON_LANGUAGES \o BALANCED_ADDITIONAL_LANGUAGES)
       [] tier \in {"premium-mini", "premium"} ->
            SortByName(COMMON_LANGUAGES \o PREMIUM_ADDITIONAL_LANGUAGES)
       [] OTHER -> COMMON_LANGUAGES]

\* Variant: the premium branch merges both additional tables.
LanguagesForTierPremiumBoth ==
  [tier \in TierInputs |->
     CASE tier = "budget" -> SortByName(COMMON_LANGUAGES)
       [] tier = "balanced" ->
            SortByName(COMMON_LANGUAGES \o BALANCED_ADDITIONAL_LANGUAGES)
       [] tier \in {"premium-mini", "premium"} ->
            SortByName(COMMON_LANGUAGES \o BALANCED_ADDITIONAL_LANGUAGES
                         \o PREMIUM_ADDITIONAL_LANGUAGES)
       [] OTHER -> COMMON_LANGUAGES]

\* Variant: the default branch returns an empty array.
LanguagesForTierDefaultEmpty ==
  [tier \in TierInputs |->
     CASE tier = "budget" -> SortByName(COMMON_LANGUAGES)
       [] tier = "balanced" ->
            SortByName(COMMON_LANGUAGES \o BALANCED_ADDITIONAL_LANGUAGES)
       [] tier \in {"premium-mini", "premium"} ->
            SortByName(COMMON_LANGUAGES \o PREMIUM_ADDITIONAL_LANGUAGES)
       [] OTHER -> <<>>]

\* Variant: the premium branch merges the balanced additions only.
LanguagesForTierPremiumBalanced ==
  [tier \in TierInputs |->
     CASE tier = "budget" -> SortByName(COMMON_LANGUAGES)
       [] tier \in {"balanced", "premium-mini", "premium"} ->
            SortByName(COMMON_LANGUAGES \o BALANCED_ADDITIONAL_LANGUAGES)
       [] OTHER -> COMMON_LANGUAGES]

\* Variant: the additions of the balanced and the premium branch are swapped.
LanguagesForTierSwapped ==
  [tier \in TierInputs |->
     CASE tier = "budget" -> SortByName(COMMON_LANGUAGES)
       [] tier = "balanced" ->
            SortByName(COMMON_LANGUAGES \o PREMIUM_ADDITIONAL_LANGUAGES)
       [] tier \in {"premium-mini", "premium"} ->
            SortByName(COMMON_LANGUAGES \o BALANCED_ADDITIONAL_LANGUAGES)
       [] OTHER -> COMMON_LANGUAGES]

LanguagesForTier ==
  [tier \in TierInputs |->
     CASE tier = "budget" -> SortByName(COMMON_LANGUAGES)
       [] tier = "balanced" ->
            SortByName(COMMON_LANGUAGES \o BALANCED_ADDITIONAL_LANGUAGES)
       [] tier \in {"premium-mini", "premium"} ->
            SortByName(COMMON_LANGUAGES \o PREMIUM_ADDITIONAL_LANGUAGES)
       [] OTHER -> COMMON_LANGUAGES]

\* A call of the function with the tier as its argument.
getLanguagesForTier(tier) == LanguagesForTier[tier]

\* lang.code of every element of an array of languages
CodesOf(languages) == {languages[i].code : i \in 1..Len(languages)}

\* Variant: the predicate compares the display name with the code passed in.
isLanguageValidForTierByName(languageCode, tier) ==
  LET languages == getLanguagesForTier(tier)
  IN  \E i \in 1..Len(languages) : languages[i].name = languageCode

(***************************************************************************)
(* isLanguageValidForTier: languages.some(lang => lang.code === code).     *)
(***************************************************************************)
isLanguageValidForTier(languageCode, tier) ==
  LET languages == getLanguagesForTier(tier)
  IN  \E i \in 1..Len(languages) : languages[i].code = languageCode

\* The value `undefined` of a missing whisper code (no table entry is spelt so).
undefined == "<undefined>"

\* Variant: only the common table is scanned.
getWhisperCodeCommonOnly(bcp47Code) ==
  LET hits == {i \in 1..Len(COMMON_LANGUAGES) :
                 COMMON_LANGUAGES[i].code = bcp47Code}
  IN  IF hits = {} THEN undefined
      ELSE COMMON_LANGUAGES[CHOOSE i \in hits : \A j \in hits : i <= j].whisperCode

(***************************************************************************)
(* getWhisperCode: find() returns the first entry of common ++ premium     *)
(* additional with the code; `language?.whisperCode` is undefined when     *)
(* there is none.                                                          *)
(***************************************************************************)
getWhisperCode(bcp47Code) ==
  LET allLanguages == COMMON_LANGUAGES \o PREMIUM_ADDITIONAL_LANGUAGES
      hits == {i \in 1..Len(allLanguages) : allLanguages[i].code = bcp47Code}
  IN  IF hits = {} THEN undefined
      ELSE allLanguages[CHOOSE i \in hits : \A j \in hits : i <= j].whisperCode

\* Variant: the test is inverted.
getFallbackLanguageInverted(currentLanguage, newTier) ==
  IF ~isLanguageValidForTier(currentLanguage, newTier)
    THEN currentLanguage
    ELSE "en-US"

\* Variant: the default is the whisper code "en", not the BCP-47 code.
getFallbackLanguageWhisperDefault(currentLanguage, newTier) ==
  IF isLanguageValidForTier(currentLanguage, newTier)
    THEN currentLanguage
    ELSE "en"

\* Variant: a valid selection is replaced, by a default other than itself.
getFallbackLanguageReplacing(currentLanguage, newTier) ==
  IF ~isLanguageValidForTier(currentLanguage, newTier)
    THEN currentLanguage
    ELSE IF currentLanguage = "en-US" THEN "en-GB" ELSE "en-US"

(***************************************************************************)
(* getFallbackLanguage                                                     *)
(***************************************************************************)
getFallbackLanguage(currentLanguage, newTier) ==
  IF isLanguageValidForTier(currentLanguage, newTier)
    THEN currentLanguage
    ELSE "en-US"

(***************************************************************************)
(* The callers of the resolver.  Language codes are every code of the      *)
(* three tables and strings that no table has as a code (a whisper code,   *)
(* a display name, a well-formed tag of no table, the empty string).       *)
(***************************************************************************)
TableCodes ==
  CodesOf(COMMON_LANGUAGES) \cup CodesOf(PREMIUM_ADDITIONAL_LANGUAGES)
    \cup CodesOf(BALANCED_ADDITIONAL_LANGUAGES)

UnrecognizedCodes == {"en", "English (US)", "xx-XX", ""}

CodeInputs == TableCodes \cup UnrecognizedCodes

(***************************************************************************)
(* The create-agent wizard: what it is built with.                         *)
(***************************************************************************)
\* PRICING_TIERS (lib/pricing-tiers) is imported by the wizard; the tables
\* here are the ones it is run with: every tier available, and a table with
\* a tier under construction in which the form's default tier is missing.
TiersAllAvailable ==
  {[id |-> t, underConstruction |-> FALSE] : t \in PricingTierType}

TiersPartial ==
  {[id |-> "budget", underConstruction |-> FALSE],
   [id |-> "balanced", underConstruction |-> FALSE],
   [id |-> "premium-mini", underConstruction |-> TRUE]}

PricingTierTables == {TiersAllAvailable, TiersPartial}

\* Lengths the user gives the name and the system prompt (both start empty).
NameLengths == {0, 1, 2}

PromptLengths == {0, 9, 10}

\* Ids of the workspaces the backend can list.
WorkspaceIds == {"ws-1", "ws-2"}

\* Ids the backend gives to the agents it creates.
AgentIds == {"agent-1", "agent-2"}

\* The languages the user picks in the Select, when the tier offers them: a
\* common one, one of both additional tables, one of premium-additional only.
LanguageChoices == {"en-US", "fr-FR", "ar-SA", "ur-PK"}

NoToast == "none"

\* useForm defaultValues
\* An object without keys (enabledToolIds: {})
EmptyRecord == [key \in {} |-> <<>>]

\* INTEGRATIONS_WITH_TOOLS: the integrations that have tools; each tool has
\* an id and the flag defaultEnabled.
INTEGRATIONS_WITH_TOOLS ==
  <<[id |-> "crm",
     tools |-> <<[id |-> "lookup", defaultEnabled |-> TRUE],
                 [id |-> "cancel", defaultEnabled |-> FALSE]>>],
    [id |-> "calendar",
     tools |-> <<[id |-> "book", defaultEnabled |-> FALSE]>>]>>

defaultValues ==
  [pricingTier |-> "premium", language |-> "en-US", nameLen |-> 0,
   promptLen |-> 0, selectedWorkspaces |-> {}, enabledTools |-> <<>>,
   enabledToolIds |-> EmptyRecord]

\* The page after its first render: step 1, the default values, the query
\* still without data, the effect about to run for the first time.
WizardMounted(table) ==
  /\ tiers = table
  /\ page = "wizard"
  /\ step = 1
  /\ form = defaultValues
  /\ workspaces = {}
  /\ effectDue = TRUE
  /\ writes = 0
  /\ downgrade = FALSE
  /\ pendingNext = {}
  /\ toast = NoToast
  /\ submits = <<>>
  /\ isPending = FALSE
  /\ prevented = FALSE
  /\ gatePassed = FALSE
  /\ lastSettled = "none"

\* chained: the code passed in is the result of the call before, for the same
\* tier; from: the code that call was given (the code itself when not chained).
NoCall == [fn |-> "none", code |-> "", from |-> "", tier |-> "",
           chained |-> FALSE, result |-> ""]

(***************************************************************************)
(* The API client (lib/api): the axios instance, its request and response  *)
(* interceptors, safeGetItem and safeRemoveItem.                           *)
(***************************************************************************)
\* The value null of a missing localStorage item
null == "<null>"

\* What localStorage holds under "access_token" when the client is loaded
TokenInputs == {null, "jwt-1"}

\* The url of a request (error.config.url)
UrlInputs == {"/api/v1/agents", "/api/v1/workspaces", "/api/v1/auth/me"}

\* The errors the response interceptor is handed: an error response with a
\* status, no response to a request sent, or a request that was never sent.
ErrorInputs ==
  {[response |-> TRUE, status |-> st, request |-> TRUE, url |-> u] :
     st \in {400, 401, 403, 500}, u \in UrlInputs}
    \cup {[response |-> FALSE, status |-> 0, request |-> rq, url |-> u] :
            rq \in BOOLEAN, u \in UrlInputs}

\* No request has settled yet
NoError == [response |-> FALSE, status |-> 0, request |-> FALSE, url |-> ""]

\* The client after the module was loaded, with a token stored or not
ClientLoaded(token) ==
  client = [token |-> token, href |-> "/dashboard/agents",
            authorization |-> "", console |-> <<>>, settled |-> "none",
            reason |-> NoError]

\* safeGetItem(key): what it returns and what it writes to the console;
\* throws: localStorage.getItem throws
safeGetItem(token, throws) ==
  IF throws THEN [value |-> null, console |-> <<"warn: failed to access">>]
            ELSE [value |-> token, console |-> <<>>]

\* Variant: localStorage.removeItem is called outside a try.
safeRemoveItemUnguarded(token, throws) ==
  IF throws THEN [token |-> token, console |-> <<>>, thrown |-> TRUE]
            ELSE [token |-> null, console |-> <<>>, thrown |-> FALSE]

\* safeRemoveItem(key): the item afterwards, the console, and whether an
\* exception leaves the function; throws: localStorage.removeItem throws
safeRemoveItem(token, throws) ==
  IF throws THEN [token |-> token, console |-> <<"warn: failed to remove">>,
                  thrown |-> FALSE]
            ELSE [token |-> null, console |-> <<>>, thrown |-> FALSE]

\* try { window.location.href = "/login" } catch (navError) { ... }
RedirectToLogin(href, throws) ==
  IF throws THEN [href |-> href, console |-> <<"error: failed to redirect">>]
            ELSE [href |-> "/login", console |-> <<>>]

\* The request interceptor: the Authorization header it sets
RequestSent(getThrows) ==
  /\ LET token == safeGetItem(client.token, getThrows)
     IN  client' = [client EXCEPT
                      !.authorization = IF token.value # null
                                          THEN "Bearer " \o token.value
                                          ELSE "",
                      !.console = token.console,
                      !.settled = "none",
                      !.reason = NoError]
  /\ UNCHANGED <<call, memory, wizard>>

\* The response interceptor's first handler: (response) => response
ResponseFulfilled ==
  /\ client.settled = "none"
  /\ client' = [client EXCEPT !.console = <<>>, !.settled = "fulfilled"]
  /\ UNCHANGED <<call, memory, wizard>>

\* The response interceptor's second handler, an async function: it
\* rejects with the error it was given, or with what it throws.
ResponseRejected(error, removeThrows, navThrows) ==
  /\ client.settled = "none"
  /\ IF error.response /\ error.status = 401
       THEN LET removed == safeRemoveItem(client.token, removeThrows)
                redirected == RedirectToLogin(client.href, navThrows)
            IN  IF removed.thrown
                  THEN client' = [client EXCEPT
                                    !.token = removed.token,
                                    !.console = <<"error: authentication failed">>
                                                  \o removed.console,
                                    !.settled = "rejected: storage error",
                                    !.reason = error]
                  ELSE client' = [client EXCEPT
                                    !.token = removed.token,
                                    !.href = redirected.href,
                                    !.console = <<"error: authentication failed">>
                                                  \o removed.console
                                                  \o redirected.console,
                                    !.settled = "rejected: error",
                                    !.reason = error]
       ELSE client' = [client EXCEPT
                         !.console =
                            IF error.response THEN <<"error: API error">>
                            ELSE IF error.request
                              THEN <<"error: network error">>
                              ELSE <<"error: request error">>,
                         !.settled = "rejected: error",
                         !.reason = error]
  /\ UNCHANGED <<call, memory, wizard>>

\* The arrays as the module's top level builds them.
StaticTables ==
  [COMMON_LANGUAGES |-> COMMON_LANGUAGES,
   BALANCED_ADDITIONAL_LANGUAGES |-> BALANCED_ADDITIONAL_LANGUAGES,
   PREMIUM_ADDITIONAL_LANGUAGES |-> PREMIUM_ADDITIONAL_LANGUAGES]

Init ==
  /\ call = NoCall
  /\ memory = StaticTables
  /\ ClientLoaded("jwt-1")
  /\ WizardMounted(TiersAllAvailable)

\* A caller lists the languages of a tier (the wizard's availableLanguages).
GetLanguagesForTier(t) ==
  /\ call' = [fn |-> "getLanguagesForTier", code |-> "", from |-> "",
              tier |-> t, chained |-> FALSE,
              result |-> getLanguagesForTier(t)]
  /\ UNCHANGED <<memory, client, wizard>>

IsLanguageValidForTier(c, t) ==
  /\ call' = [fn |-> "isLanguageValidForTier", code |-> c, from |-> c,
              tier |-> t, chained |-> FALSE,
              result |-> isLanguageValidForTier(c, t)]
  /\ UNCHANGED <<memory, client, wizard>>

GetWhisperCode(c) ==
  /\ call' = [fn |-> "getWhisperCode", code |-> c, from |-> c, tier |-> "",
              chained |-> FALSE, result |-> getWhisperCode(c)]
  /\ UNCHANGED <<memory, client, wizard>>

GetFallbackLanguage(c, t) ==
  /\ call' = [fn |-> "getFallbackLanguage", code |-> c, from |-> c,
              tier |-> t, chained |-> FALSE,
              result |-> getFallbackLanguage(c, t)]
  /\ UNCHANGED <<memory, client, wizard>>

\* The caller feeds the fallback it got back in, for the same tier (the
\* wizard's effect runs again after it wrote the fallback into the form).
GetFallbackLanguageAgain ==
  /\ call.fn = "getFallbackLanguage"
  /\ ~call.chained
  /\ call' = [fn |-> "getFallbackLanguage", code |-> call.result,
              from |-> call.code, tier |-> call.tier, chained |-> TRUE,
              result |-> getFallbackLanguage(call.result, call.tier)]
  /\ UNCHANGED <<memory, client, wizard>>

Next ==
  \/ \E t \in TierInputs : GetLanguagesForTier(t)
  \/ \E c \in CodeInputs, t \in TierInputs : IsLanguageValidForTier(c, t)
  \/ \E c \in CodeInputs : GetWhisperCode(c)
  \/ \E c \in CodeInputs, t \in TierInputs : GetFallbackLanguage(c, t)
  \/ GetFallbackLanguageAgain

Spec == Init /\ [][Next]_vars

(***************************************************************************)
(* The same calls evaluated on the arrays in memory.  Each operator gives  *)
(* the value returned and the arrays after the call: Array.prototype.sort  *)
(* sorts the array it is called on, [...a, ...b] is a new array.           *)
(***************************************************************************)
\* Variant: the "budget" branch sorts COMMON_LANGUAGES itself.
SwitchBranchesInPlace(mem) ==
  [budget |->
     [result |-> SortByName(mem.COMMON_LANGUAGES),
      memory |-> [mem EXCEPT !.COMMON_LANGUAGES = SortByName(@)]],
   balanced |->
     [result |-> SortByName(mem.COMMON_LANGUAGES
                              \o mem.BALANCED_ADDITIONAL_LANGUAGES),
      memory |-> mem],
   premium |->
     [result |-> SortByName(mem.COMMON_LANGUAGES
                              \o mem.PREMIUM_ADDITIONAL_LANGUAGES),
      memory |-> mem],
   default |-> [result |-> mem.COMMON_LANGUAGES, memory |-> mem]]

\* What each branch of the switch of getLanguagesForTier returns, and
\* leaves in memory, when it runs on the arrays mem.
SwitchBranchesIn(mem) ==
  [budget |->
     [result |-> SortByName(mem.COMMON_LANGUAGES), memory |-> mem],
   balanced |->
     [result |-> SortByName(mem.COMMON_LANGUAGES
                              \o mem.BALANCED_ADDITIONAL_LANGUAGES),
      memory |-> mem],
   premium |->
     [result |-> SortByName(mem.COMMON_LANGUAGES
                              \o mem.PREMIUM_ADDITIONAL_LANGUAGES),
      memory |-> mem],
   default |-> [result |-> mem.COMMON_LANGUAGES, memory |-> mem]]

\* switch (tier): the branch a tier takes
getLanguagesForTierIn(branches, tier) ==
  CASE tier = "budget" -> branches.budget
    [] tier = "balanced" -> branches.balanced
    [] tier \in {"premium-mini", "premium"} -> branches.premium
    [] OTHER -> branches.default

\* languages.some((lang) => lang.code === languageCode) on a listing
SomeHasCode(listing, languageCode) ==
  [result |-> languageCode \in CodesOf(listing.result),
   memory |-> listing.memory]

isLanguageValidForTierIn(branches, languageCode, tier) ==
  SomeHasCode(getLanguagesForTierIn(branches, tier), languageCode)

\* allLanguages.find((lang) => lang.code === bcp47Code)?.whisperCode
FindWhisperCode(allLanguages, bcp47Code) ==
  LET hits == {i \in 1..Len(allLanguages) : allLanguages[i].code = bcp47Code}
  IN  IF hits = {} THEN undefined
      ELSE allLanguages[CHOOSE i \in hits : \A j \in hits : i <= j].whisperCode

getWhisperCodeIn(mem, bcp47Code) ==
  [result |-> FindWhisperCode(mem.COMMON_LANGUAGES
                                \o mem.PREMIUM_ADDITIONAL_LANGUAGES, bcp47Code),
   memory |-> mem]

\* `if (valid) return currentLanguage; return "en-US"` on the validity found
KeepIfValid(valid, currentLanguage) ==
  [result |-> IF valid.result THEN currentLanguage ELSE "en-US",
   memory |-> valid.memory]

getFallbackLanguageIn(branches, currentLanguage, newTier) ==
  KeepIfValid(isLanguageValidForTierIn(branches, currentLanguage, newTier),
              currentLanguage)

\* The codes these calls are made with.
MemoryCodes == LanguageChoices \cup UnrecognizedCodes

ListsFromMemory(branches, t) ==
  /\ \E r \in {getLanguagesForTierIn(branches, t)} :
       /\ call' = [fn |-> "getLanguagesForTier", code |-> "", from |-> "",
                   tier |-> t, chained |-> FALSE, result |-> r.result]
       /\ memory' = r.memory
  /\ UNCHANGED <<client, wizard>>

ValidatesFromMemory(branches, c, t) ==
  /\ \E r \in {isLanguageValidForTierIn(branches, c, t)} :
       /\ call' = [fn |-> "isLanguageValidForTier", code |-> c, from |-> c,
                   tier |-> t, chained |-> FALSE, result |-> r.result]
       /\ memory' = r.memory
  /\ UNCHANGED <<client, wizard>>

WhisperFromMemory(c) ==
  /\ \E r \in {getWhisperCodeIn(memory, c)} :
       /\ call' = [fn |-> "getWhisperCode", code |-> c, from |-> c,
                   tier |-> "", chained |-> FALSE, result |-> r.result]
       /\ memory' = r.memory
  /\ UNCHANGED <<client, wizard>>

FallsBackFromMemory(branches, c, t) ==
  /\ \E r \in {getFallbackLanguageIn(branches, c, t)} :
       /\ call' = [fn |-> "getFallbackLanguage", code |-> c, from |-> c,
                   tier |-> t, chained |-> FALSE, result |-> r.result]
       /\ memory' = r.memory
  /\ UNCHANGED <<client, wizard>>

\* The branches are evaluated once for the arrays of the state.
MemoryNext ==
  \E branches \in {SwitchBranchesIn(memory)} :
    \/ \E t \in TierInputs : ListsFromMemory(branches, t)
    \/ \E c \in MemoryCodes, t \in TierInputs :
         ValidatesFromMemory(branches, c, t)
    \/ \E c \in MemoryCodes : WhisperFromMemory(c)
    \/ \E c \in MemoryCodes, t \in TierInputs :
         FallsBackFromMemory(branches, c, t)

SpecMemory == Init /\ [][MemoryNext]_vars

\* SpecClient: requests go out and settle; localStorage and the assignment
\* to window.location.href may throw at any call.
ClientInit ==
  /\ call = NoCall
  /\ memory = StaticTables
  /\ \E token \in TokenInputs : ClientLoaded(token)
  /\ WizardMounted(TiersAllAvailable)

ClientNext ==
  \/ \E getThrows \in BOOLEAN : RequestSent(getThrows)
  \/ ResponseFulfilled
  \/ \E error \in ErrorInputs, removeThrows \in BOOLEAN, navThrows \in BOOLEAN :
       ResponseRejected(error, removeThrows, navThrows)

SpecClient == ClientInit /\ [][ClientNext]_vars

(***************************************************************************)
(* Properties of the resolver                                              *)
(***************************************************************************)
\* Codes that only the premium-additional table has.
PremiumOnlyCodes ==
  CodesOf(PREMIUM_ADDITIONAL_LANGUAGES) \
    (CodesOf(COMMON_LANGUAGES) \cup CodesOf(BALANCED_ADDITIONAL_LANGUAGES))

\* C1: getFallbackLanguage(x, T) returns x when x is valid for T and "en-US"
\* otherwise; for tier "budget" and a code that only the premium-additional
\* table has, it returns "en-US" and not the code.
FallbackKeepsValidElseDefault ==
  call.fn = "getFallbackLanguage" =>
    /\ isLanguageValidForTier(call.code, call.tier) => call.result = call.code
    /\ ~isLanguageValidForTier(call.code, call.tier) => call.result = "en-US"
    /\ (call.tier = "budget" /\ call.code \in PremiumOnlyCodes) =>
         (call.result = "en-US" /\ call.result # call.code)

BudgetPremiumOnlyFellBack ==
  /\ call.fn = "getFallbackLanguage"
  /\ call.tier = "budget"
  /\ call.code = "ur-PK"
  /\ call.result = "en-US"

\* C2: the default "en-US" is a code of COMMON_LANGUAGES and is valid for
\* every tier, recognized or not; hence whatever getFallbackLanguage(x, T)
\* returns is valid for T.
FallbackResultIsValid ==
  call.fn = "getFallbackLanguage" =>
    /\ isLanguageValidForTier(call.result, call.tier)
    /\ call.result # call.code =>
         /\ call.result \in CodesOf(COMMON_LANGUAGES)
         /\ \A t \in TierInputs : isLanguageValidForTier(call.result, t)

UnrecognizedTierFellBack ==
  /\ call.fn = "getFallbackLanguage"
  /\ call.tier \in UnrecognizedTiers
  /\ call.code \in PremiumOnlyCodes
  /\ call.result # call.code

\* C3: getFallbackLanguage is idempotent in its first argument: applied to
\* its own result for the same tier it returns that result again.
FallbackIdempotent ==
  (call.fn = "getFallbackLanguage" /\ call.chained) => call.result = call.code

FallbackReappliedAfterFalling ==
  /\ call.fn = "getFallbackLanguage"
  /\ call.chained
  /\ call.tier = "budget"
  /\ call.from = "he-IL"
  /\ call.code = "en-US"
  /\ call.result = "en-US"

\* C4: for every tier the codes getLanguagesForTier returns include every
\* code of COMMON_LANGUAGES, and the codes that all four pricing tiers share
\* are exactly the codes of COMMON_LANGUAGES.
UniversalityInvariant ==
  call.fn = "getLanguagesForTier" =>
    /\ CodesOf(COMMON_LANGUAGES) \subseteq CodesOf(call.result)
    /\ call.tier \in PricingTierType =>
         {c \in CodesOf(call.result) :
            \A t \in PricingTierType \ {call.tier} :
              c \in CodesOf(getLanguagesForTier(t))}
           = CodesOf(COMMON_LANGUAGES)

BalancedListedWithAdditions ==
  /\ call.fn = "getLanguagesForTier"
  /\ call.tier = "balanced"
  /\ CodesOf(call.result) # CodesOf(COMMON_LANGUAGES)

\* C5: for every tier, no two entries of the array getLanguagesForTier
\* returns have the same code.
NoDuplicateCodes ==
  call.fn = "getLanguagesForTier" =>
    \A i, j \in 1..Len(call.result) :
      i # j => call.result[i].code # call.result[j].code

PremiumListedMerged ==
  /\ call.fn = "getLanguagesForTier"
  /\ call.tier = "premium"
  /\ Len(call.result) =
       Len(COMMON_LANGUAGES) + Len(PREMIUM_ADDITIONAL_LANGUAGES)

\* C6: for each of the four pricing tiers the array getLanguagesForTier
\* returns is sorted ascending by display name: no entry compares greater
\* than the entry after it.
SortedByName ==
  (call.fn = "getLanguagesForTier" /\ call.tier \in PricingTierType) =>
    \A i \in 1..(Len(call.result) - 1) :
      localeCompare(call.result[i].name, call.result[i + 1].name) <= 0

PremiumMiniListedReordered ==
  /\ call.fn = "getLanguagesForTier"
  /\ call.tier = "premium-mini"
  /\ call.result # COMMON_LANGUAGES \o PREMIUM_ADDITIONAL_LANGUAGES
  /\ call.result[1].name = "Afrikaans"

\* What getWhisperCode can return: a whisper code of a table, or undefined.
WhisperResults ==
  {COMMON_LANGUAGES[i].whisperCode : i \in 1..Len(COMMON_LANGUAGES)}
    \cup {PREMIUM_ADDITIONAL_LANGUAGES[i].whisperCode :
            i \in 1..Len(PREMIUM_ADDITIONAL_LANGUAGES)}
    \cup {BALANCED_ADDITIONAL_LANGUAGES[i].whisperCode :
            i \in 1..Len(BALANCED_ADDITIONAL_LANGUAGES)}
    \cup {undefined}

\* C7: the resolver is total: for a tier identifier outside the four pricing
\* tiers getLanguagesForTier returns the entries of COMMON_LANGUAGES (exactly
\* its codes), and for every code and tier, recognized or not,
\* isLanguageValidForTier returns a boolean, getFallbackLanguage a language
\* code and getWhisperCode a whisper code or undefined.
ResolverTotal ==
  /\ (call.fn = "getLanguagesForTier" /\ call.tier \notin PricingTierType) =>
       /\ CodesOf(call.result) = CodesOf(COMMON_LANGUAGES)
       /\ Len(call.result) = Len(COMMON_LANGUAGES)
  /\ call.fn = "isLanguageValidForTier" => call.result \in BOOLEAN
  /\ call.fn = "getFallbackLanguage" => call.result \in {call.code, "en-US"}
  /\ call.fn = "getWhisperCode" => call.result \in WhisperResults

UnrecognizedTierListed ==
  /\ call.fn = "getLanguagesForTier"
  /\ call.tier = "enterprise"
  /\ Len(call.result) > 0

\* C8: isLanguageValidForTier(code, tier) is true exactly when an entry of
\* getLanguagesForTier(tier) has the code; a code of no table is valid for no
\* tier, and an unrecognized tier accepts exactly the codes of
\* COMMON_LANGUAGES.
ValidIffListed ==
  call.fn = "isLanguageValidForTier" =>
    /\ call.result <=>
         (\E i \in 1..Len(getLanguagesForTier(call.tier)) :
            getLanguagesForTier(call.tier)[i].code = call.code)
    /\ call.code \notin TableCodes => call.result = FALSE
    /\ call.tier \notin PricingTierType =>
         (call.result <=> call.code \in CodesOf(COMMON_LANGUAGES))

UnrecognizedTierRejectedAddition ==
  /\ call.fn = "isLanguageValidForTier"
  /\ call.tier = "enterprise"
  /\ call.code = "ar-SA"
  /\ call.result = FALSE

\* Every entry of the three tables.
TableEntries ==
  {COMMON_LANGUAGES[i] : i \in 1..Len(COMMON_LANGUAGES)}
    \cup {PREMIUM_ADDITIONAL_LANGUAGES[i] :
            i \in 1..Len(PREMIUM_ADDITIONAL_LANGUAGES)}
    \cup {BALANCED_ADDITIONAL_LANGUAGES[i] :
            i \in 1..Len(BALANCED_ADDITIONAL_LANGUAGES)}

\* C9: getWhisperCode(code) returns the whisperCode recorded for the code
\* whenever one of the three tables has the code, and undefined exactly when
\* none has it; the entries of one code in different tables carry the same
\* whisperCode.
WhisperCodeOfAnyTable ==
  /\ call.fn = "getWhisperCode" =>
       /\ call.code \in TableCodes =>
            \E e \in TableEntries :
              e.code = call.code /\ e.whisperCode = call.result
       /\ call.result = undefined <=> call.code \notin TableCodes
  /\ \A e1, e2 \in TableEntries :
       e1.code = e2.code => e1.whisperCode = e2.whisperCode

WhisperCodeOfBalancedAddition ==
  /\ call.fn = "getWhisperCode"
  /\ call.code = "ca-ES"
  /\ call.code \in CodesOf(BALANCED_ADDITIONAL_LANGUAGES)
  /\ call.result = "ca"

\* C10: for tier "premium" every code of the three tables is valid:
\* isLanguageValidForTier returns true and getFallbackLanguage returns the
\* code unchanged.
PremiumAcceptsFullCatalog ==
  (call.tier = "premium" /\ call.code \in TableCodes) =>
    /\ call.fn = "isLanguageValidForTier" => call.result = TRUE
    /\ call.fn = "getFallbackLanguage" => call.result = call.code

PremiumKeptPremiumOnly ==
  /\ call.fn = "getFallbackLanguage"
  /\ call.tier = "premium"
  /\ call.code = "mi-NZ"
  /\ call.result = "mi-NZ"

(***************************************************************************)
(* The create-agent wizard (CreateAgentPage).  React runs an event handler *)
(* to its end, renders, and flushes the effects of that render before the  *)
(* next event or response is handled: while effectDue holds only the       *)
(* effect runs.  The continuation of an `await` is a step of its own.      *)
(***************************************************************************)
MaxPending == 1   \* handleNext calls suspended at the same time

MaxSubmits == 2   \* handleSubmit calls in progress at the same time

MaxWrites == 2    \* the count of the effect's writes saturates here

\* The page is mounted and its effects have been flushed.
Interactive == page # "left" /\ ~effectDue

\* Variant: the effect computes the fallback and does not write it.
LanguageEffectKeeps ==
  /\ page # "left"
  /\ effectDue
  /\ effectDue' = FALSE
  /\ UNCHANGED <<call, memory, client, tiers, page, step, form, workspaces, writes,
                 downgrade, pendingNext, toast, submits, isPending, prevented,
                 gatePassed,
                 lastSettled>>

\* Variant: the effect calls form.setValue without comparing.
LanguageEffectAlwaysWrites ==
  /\ page # "left"
  /\ effectDue
  /\ LET fallback == getFallbackLanguage(form.language, form.pricingTier)
     IN  /\ form' = [form EXCEPT !.language = fallback]
         /\ writes' = IF writes < MaxWrites THEN writes + 1 ELSE writes
         /\ effectDue' = (fallback # form.language)
  /\ UNCHANGED <<call, memory, client, tiers, page, step, workspaces, downgrade, pendingNext,
                 toast, submits, isPending, prevented, gatePassed,
                 lastSettled>>

\* The language-reset useEffect, dependencies [pricingTier, currentLanguage].
LanguageEffect ==
  /\ page # "left"
  /\ effectDue
  /\ LET fallback == getFallbackLanguage(form.language, form.pricingTier)
     IN  IF fallback # form.language
           THEN /\ form' = [form EXCEPT !.language = fallback]
                /\ writes' = IF writes < MaxWrites THEN writes + 1 ELSE writes
                /\ effectDue' = TRUE
           ELSE /\ effectDue' = FALSE
                /\ UNCHANGED <<form, writes>>
  /\ UNCHANGED <<call, memory, client, tiers, page, step, workspaces, downgrade, pendingNext,
                 toast, submits, isPending, prevented, gatePassed,
                 lastSettled>>

\* A click on the card of a tier at step 1: the button is disabled for a tier
\* under construction, and onClick sets pricingTier only for another tier.
SelectTier(tier) ==
  /\ Interactive
  /\ step = 1
  /\ tier \in tiers
  /\ ~tier.underConstruction
  /\ tier.id # form.pricingTier
  /\ form' = [form EXCEPT !.pricingTier = tier.id]
  /\ effectDue' = TRUE
  /\ writes' = 0
  /\ downgrade' = (/\ form.pricingTier = "premium"
                   /\ tier.id = "budget"
                   /\ ~isLanguageValidForTier(form.language, "budget"))
  /\ UNCHANGED <<call, memory, client, tiers, page, step, workspaces, pendingNext, toast,
                 submits, isPending, prevented, gatePassed,
                 lastSettled>>

\* availableLanguages = getLanguagesForTier(pricingTier): the Select's items
availableLanguages == getLanguagesForTier(form.pricingTier)

\* The user picks an item of the language Select at step 2.
SelectLanguage(code) ==
  /\ Interactive
  /\ step = 2
  /\ code \in CodesOf(availableLanguages)
  /\ code # form.language
  /\ form' = [form EXCEPT !.language = code]
  /\ effectDue' = TRUE
  /\ writes' = 0
  /\ downgrade' = FALSE
  /\ UNCHANGED <<call, memory, client, tiers, page, step, workspaces, pendingNext, toast,
                 submits, isPending, prevented, gatePassed,
                 lastSettled>>

\* The user edits the name Input at step 2 (the model keeps its length).
TypeName(n) ==
  /\ Interactive
  /\ step = 2
  /\ n # form.nameLen
  /\ form' = [form EXCEPT !.nameLen = n]
  /\ UNCHANGED <<call, memory, client, tiers, page, step, workspaces, effectDue, writes,
                 downgrade, pendingNext, toast, submits, isPending, prevented,
                 gatePassed,
                 lastSettled>>

\* The user edits the system prompt at step 3.
TypePrompt(n) ==
  /\ Interactive
  /\ step = 3
  /\ n # form.promptLen
  /\ form' = [form EXCEPT !.promptLen = n]
  /\ UNCHANGED <<call, memory, client, tiers, page, step, workspaces, effectDue, writes,
                 downgrade, pendingNext, toast, submits, isPending, prevented,
                 gatePassed,
                 lastSettled>>

\* The user ticks or unticks the Checkbox of a listed workspace at step 2.
ToggleWorkspace(w) ==
  /\ Interactive
  /\ step = 2
  /\ w \in workspaces
  /\ form' = [form EXCEPT !.selectedWorkspaces =
                IF w \in @ THEN @ \ {w} ELSE @ \cup {w}]
  /\ UNCHANGED <<call, memory, client, tiers, page, step, workspaces, effectDue, writes,
                 downgrade, pendingNext, toast, submits, isPending, prevented,
                 gatePassed,
                 lastSettled>>

\* The ["workspaces"] query delivers a list (first fetch or a refetch).
WorkspacesFetched(ids) ==
  /\ Interactive
  /\ ids # workspaces
  /\ workspaces' = ids
  /\ UNCHANGED <<call, memory, client, tiers, page, step, form, effectDue, writes, downgrade,
                 pendingNext, toast, submits, isPending, prevented, gatePassed,
                 lastSettled>>

(***************************************************************************)
(* Step 4, Tools & Integrations: the Checkbox of an integration, Select    *)
(* All, Clear All and the Checkbox of a tool.                              *)
(***************************************************************************)
\* array.includes(v)
Includes(array, v) == \E n \in 1..Len(array) : array[n] = v

\* array.filter((x) => x !== v)
Without(array, v) == SelectSeq(array, LAMBDA x : x # v)

\* {...record, [key]: value}
WithKey(record, key, value) ==
  [k \in DOMAIN record \cup {key} |-> IF k = key THEN value ELSE record[k]]

\* const {[key]: _removed, ...rest} = record
Rest(record, key) == [k \in DOMAIN record \ {key} |-> record[k]]

\* enabledToolIds[integration.id] ?? []
ToolsFor(record, key) == IF key \in DOMAIN record THEN record[key] ELSE <<>>

\* integration.tools.filter((t) => t.defaultEnabled).map((t) => t.id)
DefaultTools(integration) ==
  LET kept == SelectSeq(integration.tools, LAMBDA t : t.defaultEnabled)
  IN  [n \in 1..Len(kept) |-> kept[n].id]

\* integration.tools.map((t) => t.id)
AllToolIds(integration) ==
  [n \in 1..Len(integration.tools) |-> integration.tools[n].id]

\* Variant: unchecking an integration keeps its entry of enabledToolIds.
ToggleIntegrationKeepsTools(integration) ==
  /\ Interactive
  /\ step = 4
  /\ IF ~Includes(form.enabledTools, integration.id)
       THEN form' = [form EXCEPT
                       !.enabledTools = Append(@, integration.id),
                       !.enabledToolIds =
                          IF Len(DefaultTools(integration)) > 0
                            THEN WithKey(@, integration.id,
                                         DefaultTools(integration))
                            ELSE @]
       ELSE form' = [form EXCEPT
                       !.enabledTools = Without(@, integration.id)]
  /\ UNCHANGED <<call, memory, client, tiers, page, step, workspaces, effectDue,
                 writes, downgrade, pendingNext, toast, submits, isPending,
                 prevented, gatePassed, lastSettled>>

\* A click on the Checkbox of an integration (checked = it was not enabled)
ToggleIntegration(integration) ==
  /\ Interactive
  /\ step = 4
  /\ IF ~Includes(form.enabledTools, integration.id)
       THEN form' = [form EXCEPT
                       !.enabledTools = Append(@, integration.id),
                       !.enabledToolIds =
                          IF Len(DefaultTools(integration)) > 0
                            THEN WithKey(@, integration.id,
                                         DefaultTools(integration))
                            ELSE @]
       ELSE form' = [form EXCEPT
                       !.enabledTools = Without(@, integration.id),
                       !.enabledToolIds = Rest(@, integration.id)]
  /\ UNCHANGED <<call, memory, client, tiers, page, step, workspaces, effectDue,
                 writes, downgrade, pendingNext, toast, submits, isPending,
                 prevented, gatePassed, lastSettled>>

\* Select All (rendered for an enabled integration)
SelectAllTools(integration) ==
  /\ Interactive
  /\ step = 4
  /\ Includes(form.enabledTools, integration.id)
  /\ form' = [form EXCEPT
                !.enabledToolIds =
                   WithKey(@, integration.id, AllToolIds(integration))]
  /\ UNCHANGED <<call, memory, client, tiers, page, step, workspaces, effectDue,
                 writes, downgrade, pendingNext, toast, submits, isPending,
                 prevented, gatePassed, lastSettled>>

\* Clear All (rendered for an enabled integration)
ClearAllTools(integration) ==
  /\ Interactive
  /\ step = 4
  /\ Includes(form.enabledTools, integration.id)
  /\ form' = [form EXCEPT
                !.enabledToolIds = WithKey(@, integration.id, <<>>)]
  /\ UNCHANGED <<call, memory, client, tiers, page, step, workspaces, effectDue,
                 writes, downgrade, pendingNext, toast, submits, isPending,
                 prevented, gatePassed, lastSettled>>

\* A click on the Checkbox of a tool of an enabled integration (checked =
\* the tool was not in the list)
ToggleTool(integration, tool) ==
  /\ Interactive
  /\ step = 4
  /\ Includes(form.enabledTools, integration.id)
  /\ LET toolsForIntegration == ToolsFor(form.enabledToolIds, integration.id)
         newTools == IF ~Includes(toolsForIntegration, tool.id)
                       THEN Append(toolsForIntegration, tool.id)
                       ELSE Without(toolsForIntegration, tool.id)
     IN  form' = [form EXCEPT
                    !.enabledToolIds = WithKey(@, integration.id, newTools)]
  /\ UNCHANGED <<call, memory, client, tiers, page, step, workspaces, effectDue,
                 writes, downgrade, pendingNext, toast, submits, isPending,
                 prevented, gatePassed, lastSettled>>

\* The clicks of step 4
SelectsTools ==
  \E g \in 1..Len(INTEGRATIONS_WITH_TOOLS) :
    LET integration == INTEGRATIONS_WITH_TOOLS[g]
    IN  \/ ToggleIntegration(integration)
        \/ SelectAllTools(integration)
        \/ ClearAllTools(integration)
        \/ \E t \in 1..Len(integration.tools) :
             ToggleTool(integration, integration.tools[t])

(***************************************************************************)
(* Step navigation: validateStep, handleNext, handleBack, the progress bar *)
(***************************************************************************)
LastStep == 5

NameMin == 2      \* name: z.string().min(2)

PromptMin == 10   \* systemPrompt: z.string().min(10)

\* agentFormSchema applied to form values (zodResolver)
agentFormSchema(data) ==
  /\ data.pricingTier \in PricingTierType
  /\ data.nameLen >= NameMin
  /\ data.promptLen >= PromptMin
  /\ Cardinality(data.selectedWorkspaces) >= 1

\* Variant: step 1 does not look at the workspace list.
validateStepNoWorkspaceCheck(currentStep) ==
  CASE currentStep = 1 ->
         IF ~\E tier \in tiers :
               tier.id = form.pricingTier /\ ~tier.underConstruction
           THEN [ok |-> FALSE, toast |-> "select-tier"]
           ELSE [ok |-> TRUE, toast |-> toast]
    [] currentStep = 2 ->
         [ok |-> form.nameLen >= NameMin
                   /\ Cardinality(form.selectedWorkspaces) >= 1,
          toast |-> toast]
    [] currentStep = 3 ->
         [ok |-> form.promptLen >= PromptMin, toast |-> toast]
    [] OTHER -> [ok |-> TRUE, toast |-> toast]

\* validateStep(currentStep): what it resolves to and the toast on display
\* after its call.  Step 1 reads the workspace list of the render and the
\* form's tier; steps 2 and 3 are form.trigger on the fields of the step.
validateStep(currentStep) ==
  CASE currentStep = 1 ->
         IF workspaces = {}
           THEN [ok |-> FALSE, toast |-> "workspace-first"]
         ELSE IF ~\E tier \in tiers :
                    tier.id = form.pricingTier /\ ~tier.underConstruction
           THEN [ok |-> FALSE, toast |-> "select-tier"]
           ELSE [ok |-> TRUE, toast |-> toast]
    [] currentStep = 2 ->
         [ok |-> form.nameLen >= NameMin
                   /\ Cardinality(form.selectedWorkspaces) >= 1,
          toast |-> toast]
    [] currentStep = 3 ->
         [ok |-> form.promptLen >= PromptMin, toast |-> toast]
    [] OTHER -> [ok |-> TRUE, toast |-> toast]

\* A click on Next (rendered while step < 5): handleNext calls validateStep
\* with the step of the render and suspends at the await.
HandleNextClick ==
  /\ Interactive
  /\ step < LastStep
  /\ Cardinality(pendingNext) < MaxPending
  /\ LET v == validateStep(step)
     IN  /\ pendingNext' = pendingNext \cup {[step |-> step, isValid |-> v.ok]}
         /\ toast' = v.toast
  /\ gatePassed' = (gatePassed \/ workspaces # {})
  /\ UNCHANGED <<call, memory, client, tiers, page, step, form, workspaces, effectDue, writes,
                 downgrade, submits, isPending, prevented,
                 lastSettled>>

\* handleNext resumes: `if (isValid && step < 5) setStep(step + 1)`, step
\* being the step of the render the click was made in.
HandleNextResume(p) ==
  /\ ~effectDue
  /\ p \in pendingNext
  /\ pendingNext' = pendingNext \ {p}
  /\ step' = IF p.isValid /\ p.step < LastStep /\ page # "left"
               THEN p.step + 1
               ELSE step
  /\ UNCHANGED <<call, memory, client, tiers, page, form, workspaces, effectDue, writes,
                 downgrade, toast, submits, isPending, prevented, gatePassed,
                 lastSettled>>

\* A click on Back (disabled at step 1): `if (step > 1) setStep(step - 1)`
HandleBack ==
  /\ Interactive
  /\ step > 1
  /\ step' = step - 1
  /\ UNCHANGED <<call, memory, client, tiers, page, form, workspaces, effectDue, writes,
                 downgrade, pendingNext, toast, submits, isPending, prevented,
                 gatePassed,
                 lastSettled>>

\* A click on the progress-bar button of step id (disabled when id > step):
\* `s.id < step && setStep(s.id)`
StepClick(id) ==
  /\ Interactive
  /\ id < step
  /\ step' = id
  /\ UNCHANGED <<call, memory, client, tiers, page, form, workspaces, effectDue, writes,
                 downgrade, pendingNext, toast, submits, isPending, prevented,
                 gatePassed,
                 lastSettled>>

(***************************************************************************)
(* Submission: the form's submit event, the Create Agent button,           *)
(* handleSubmit(onSubmit), createAgentMutation and the workspace PUT.      *)
(***************************************************************************)
NoRequest == [pricing_tier |-> "", language |-> "", nameLen |-> 0,
              promptLen |-> 0, enabled_tools |-> {},
              enabled_tool_ids |-> EmptyRecord]

NoPut == [agent |-> "", workspace_ids |-> {}]

\* A call of handleSubmit(onSubmit) that has just taken its copy of the form
\* values and awaits the resolver.
Submission(data, via) ==
  [stage |-> "validating", via |-> via, atStep |-> step, data |-> data,
   request |-> NoRequest, current |-> FALSE, agent |-> "", put |-> NoPut]

\* Variant: enabled_tools is the enabledTools field of the form.
CreateAgentRequestFromCheckboxes(data) ==
  [pricing_tier |-> data.pricingTier, language |-> data.language,
   nameLen |-> data.nameLen, promptLen |-> data.promptLen,
   enabled_tools |-> {data.enabledTools[n] : n \in 1..Len(data.enabledTools)},
   enabled_tool_ids |-> data.enabledToolIds]

\* The CreateAgentRequest onSubmit builds from the validated values;
\* enabled_tools: the keys of enabledToolIds whose list has an element.
CreateAgentRequest(data) ==
  [pricing_tier |-> data.pricingTier, language |-> data.language,
   nameLen |-> data.nameLen, promptLen |-> data.promptLen,
   enabled_tools |-> {integrationId \in DOMAIN data.enabledToolIds :
                        Len(data.enabledToolIds[integrationId]) > 0},
   enabled_tool_ids |-> data.enabledToolIds]

RemoveAt(seq, i) == SubSeq(seq, 1, i - 1) \o SubSeq(seq, i + 1, Len(seq))

\* Variant: the form's onSubmit hands the event to handleSubmit(onSubmit).
FormSubmitEventSubmits ==
  /\ Interactive
  /\ Len(submits) < MaxSubmits
  /\ prevented' = TRUE
  /\ submits' = Append(submits, Submission(form, "form"))
  /\ UNCHANGED <<call, memory, client, tiers, page, step, form, workspaces, effectDue, writes,
                 downgrade, pendingNext, toast, isPending, gatePassed,
                 lastSettled>>

\* The form's native submit event (Enter in a field): onSubmit only calls
\* e.preventDefault().
FormSubmitEvent ==
  /\ Interactive
  /\ prevented' = TRUE
  /\ UNCHANGED <<call, memory, client, tiers, page, step, form, workspaces, effectDue, writes,
                 downgrade, pendingNext, toast, submits, isPending, gatePassed,
                 lastSettled>>

\* A click on Create Agent (rendered at step 5, disabled while isPending):
\* form.handleSubmit(onSubmit)() copies the form values and validates them.
PressCreate ==
  /\ Interactive
  /\ step = LastStep
  /\ ~isPending
  /\ Len(submits) < MaxSubmits
  /\ submits' = Append(submits, Submission(form, "button"))
  /\ UNCHANGED <<call, memory, client, tiers, page, step, form, workspaces, effectDue, writes,
                 downgrade, pendingNext, toast, isPending, prevented,
                 gatePassed,
                 lastSettled>>

\* The resolver has answered.  Valid values: onSubmit builds the request and
\* calls mutateAsync, the mutation (now the observer's current one) is
\* pending.  Invalid values: handleSubmit ends without calling onSubmit.
SubmitValidated(i) ==
  /\ ~effectDue
  /\ i \in 1..Len(submits)
  /\ submits[i].stage = "validating"
  /\ IF agentFormSchema(submits[i].data)
       THEN /\ submits' =
                 [j \in 1..Len(submits) |->
                    IF j = i
                      THEN [submits[j] EXCEPT
                              !.stage = "creating",
                              !.request = CreateAgentRequest(submits[j].data),
                              !.current = TRUE]
                      ELSE [submits[j] EXCEPT !.current = FALSE]]
            /\ isPending' = TRUE
       ELSE /\ submits' = RemoveAt(submits, i)
            /\ UNCHANGED isPending
  /\ UNCHANGED <<call, memory, client, tiers, page, step, form, workspaces, effectDue, writes,
                 downgrade, pendingNext, toast, prevented, gatePassed,
                 lastSettled>>

\* Variant: the PUT is sent with the workspaces the form has selected now.
CreateSucceedsPutsForm(i, id) ==
  /\ ~effectDue
  /\ i \in 1..Len(submits)
  /\ submits[i].stage = "creating"
  /\ toast' = "created"
  /\ page' = IF page = "wizard" THEN "leaving" ELSE page
  /\ isPending' = IF submits[i].current THEN FALSE ELSE isPending
  /\ submits' =
       IF Cardinality(submits[i].data.selectedWorkspaces) > 0
         THEN [submits EXCEPT
                 ![i].stage = "assigning",
                 ![i].agent = id,
                 ![i].put = [agent |-> id,
                             workspace_ids |-> form.selectedWorkspaces]]
         ELSE RemoveAt(submits, i)
  /\ lastSettled' = "create-ok"
  /\ UNCHANGED <<call, memory, client, tiers, step, form, workspaces, effectDue, writes,
                 downgrade, pendingNext, prevented, gatePassed>>

\* POST /api/v1/agents succeeds with the agent: onSuccess shows the toast
\* and calls router.push; onSubmit resumes and, if the submitted values
\* select a workspace, sends the PUT for the agent's id.
CreateSucceeds(i, id) ==
  /\ ~effectDue
  /\ i \in 1..Len(submits)
  /\ submits[i].stage = "creating"
  /\ toast' = "created"
  /\ page' = IF page = "wizard" THEN "leaving" ELSE page
  /\ isPending' = IF submits[i].current THEN FALSE ELSE isPending
  /\ submits' =
       IF Cardinality(submits[i].data.selectedWorkspaces) > 0
         THEN [submits EXCEPT
                 ![i].stage = "assigning",
                 ![i].agent = id,
                 ![i].put = [agent |-> id,
                             workspace_ids |->
                               submits[i].data.selectedWorkspaces]]
         ELSE RemoveAt(submits, i)
  /\ lastSettled' = "create-ok"
  /\ UNCHANGED <<call, memory, client, tiers, step, form, workspaces, effectDue, writes,
                 downgrade, pendingNext, prevented, gatePassed>>

\* The POST fails: onError shows the toast, mutateAsync rejects and the
\* catch of onSubmit ends the submission.
CreateFails(i) ==
  /\ ~effectDue
  /\ i \in 1..Len(submits)
  /\ submits[i].stage = "creating"
  /\ toast' = "create-failed"
  /\ isPending' = IF submits[i].current THEN FALSE ELSE isPending
  /\ submits' = RemoveAt(submits, i)
  /\ lastSettled' = "create-failed"
  /\ UNCHANGED <<call, memory, client, tiers, page, step, form, workspaces, effectDue, writes,
                 downgrade, pendingNext, prevented, gatePassed>>

\* The PUT is rejected (error response or network error): `await api.put`
\* throws inside the try and the empty catch of onSubmit ends the call.
AssignFails(i) ==
  /\ ~effectDue
  /\ i \in 1..Len(submits)
  /\ submits[i].stage = "assigning"
  /\ submits' = RemoveAt(submits, i)
  /\ lastSettled' = "assign-failed"
  /\ UNCHANGED <<call, memory, client, tiers, page, step, form, workspaces, effectDue,
                 writes, downgrade, pendingNext, toast, isPending, prevented,
                 gatePassed>>

\* The PUT is answered: onSubmit ends.
AssignSucceeds(i) ==
  /\ ~effectDue
  /\ i \in 1..Len(submits)
  /\ submits[i].stage = "assigning"
  /\ submits' = RemoveAt(submits, i)
  /\ lastSettled' = "assign-ok"
  /\ UNCHANGED <<call, memory, client, tiers, page, step, form, workspaces, effectDue,
                 writes, downgrade, pendingNext, toast, isPending, prevented,
                 gatePassed>>

\* The route pushed by onSuccess has loaded: the page unmounts.
Unmount ==
  /\ page = "leaving"
  /\ ~effectDue
  /\ page' = "left"
  /\ UNCHANGED <<call, memory, client, tiers, step, form, workspaces, effectDue, writes,
                 downgrade, pendingNext, toast, submits, isPending, prevented,
                 gatePassed,
                 lastSettled>>

(***************************************************************************)
(* Specifications of the wizard.                                           *)
(***************************************************************************)
WizardInit ==
  /\ call = NoCall
  /\ memory = StaticTables
  /\ ClientLoaded("jwt-1")
  /\ \E table \in PricingTierTables : WizardMounted(table)

\* No handleNext call is suspended / no handler at all is suspended at an
\* await of the form library.
NextSettled == pendingNext = {}

Settled ==
  /\ NextSettled
  /\ \A i \in 1..Len(submits) : submits[i].stage # "validating"

\* What suspended handlers and requests in flight do next.
Resumes ==
  \/ \E p \in pendingNext : HandleNextResume(p)
  \/ \E i \in 1..MaxSubmits : SubmitValidated(i)
  \/ \E i \in 1..MaxSubmits, id \in AgentIds : CreateSucceeds(i, id)
  \/ \E i \in 1..MaxSubmits : CreateFails(i)
  \/ \E i \in 1..MaxSubmits : AssignSucceeds(i)
  \/ \E i \in 1..MaxSubmits : AssignFails(i)
  \/ Unmount

Navigates ==
  \/ HandleNextClick
  \/ HandleBack
  \/ \E id \in 1..LastStep : StepClick(id)

\* The user fills the form in with values the schema accepts.
FillsValid ==
  \/ TypeName(NameMin)
  \/ TypePrompt(PromptMin)
  \/ \E w \in WorkspaceIds : ToggleWorkspace(w)

\* SpecLanguage: the user changes tier and language; every handler runs to
\* its end before the next click, one submission at a time.
LanguageNext ==
  \/ LanguageEffect
  \/ Settled /\ \E tier \in tiers : SelectTier(tier)
  \/ Settled /\ \E code \in LanguageChoices : SelectLanguage(code)
  \/ Settled /\ FillsValid
  \/ Settled /\ WorkspacesFetched({"ws-1"})
  \/ Settled /\ Navigates
  \/ Settled /\ submits = <<>> /\ PressCreate
  \/ Resumes

SpecLanguage == Init /\ [][LanguageNext]_vars

\* React runs a scheduled effect before it handles the next event.
SpecLanguageFair == SpecLanguage /\ WF_vars(LanguageEffect)

\* SpecSteps: clicks interleave with the suspended handleNext calls, the
\* workspace list comes and goes, the table of tiers is either one.
StepsNext ==
  \/ LanguageEffect
  \/ \E tier \in tiers : SelectTier(tier)
  \/ FillsValid
  \/ \E ids \in {{}, {"ws-1"}} : WorkspacesFetched(ids)
  \/ Navigates
  \/ submits = <<>> /\ PressCreate
  \/ Resumes

SpecSteps == WizardInit /\ [][StepsNext]_vars

\* SpecSubmit: any lengths of name and prompt, clicks interleaving with the
\* suspended handleNext calls, submit events, one submission at a time.
SubmitNext ==
  \/ LanguageEffect
  \/ \E n \in NameLengths : TypeName(n)
  \/ \E n \in PromptLengths : TypePrompt(n)
  \/ ToggleWorkspace("ws-1")
  \/ WorkspacesFetched({"ws-1"})
  \/ Navigates
  \/ FormSubmitEvent
  \/ submits = <<>> /\ PressCreate
  \/ Resumes

SpecSubmit == Init /\ [][SubmitNext]_vars

\* SpecTools: the user picks integrations and tools at step 4; every handler
\* runs to its end before the next click, one submission at a time.
ToolsNext ==
  \/ LanguageEffect
  \/ Settled /\ FillsValid
  \/ Settled /\ WorkspacesFetched({"ws-1"})
  \/ Settled /\ Navigates
  \/ Settled /\ SelectsTools
  \/ Settled /\ submits = <<>> /\ PressCreate
  \/ Resumes

SpecTools == Init /\ [][ToolsNext]_vars

\* SpecRequests: Create Agent is pressed whenever it is enabled, also while
\* earlier submissions are in progress; navigation runs to its end.
RequestsNext ==
  \/ LanguageEffect
  \/ NextSettled /\ FillsValid
  \/ NextSettled /\ WorkspacesFetched(WorkspaceIds)
  \/ NextSettled /\ Navigates
  \/ NextSettled /\ PressCreate
  \/ Resumes

SpecRequests == Init /\ [][RequestsNext]_vars

(***************************************************************************)
(* Claims about the wizard.                                                *)
(***************************************************************************)

\* C11: after the tier was switched from "premium" to "budget" with a
\* premium-only language selected, the language-reset effect writes the
\* language field once, to "en-US": it never writes a second time, its
\* re-run finds the language valid, and the effect comes to rest with that
\* single write made.
EffectWritesOnce ==
  /\ [](downgrade => /\ writes <= 1
                     /\ ~effectDue => writes = 1 /\ form.language = "en-US")
  /\ (downgrade /\ effectDue) ~> (downgrade /\ ~effectDue /\ writes = 1)

PremiumOnlyLanguageResetOnce ==
  /\ downgrade
  /\ ~effectDue
  /\ writes = 1
  /\ form.pricingTier = "budget"
  /\ form.language = "en-US"

\* C12: no call of the four resolver functions changes the contents or the
\* order of the three static arrays, and what a call returns is what the same
\* call returns on the arrays as first built, whatever calls came before.
TablesNeverChange ==
  /\ memory = StaticTables
  /\ call.fn = "getLanguagesForTier" =>
       call.result = getLanguagesForTier(call.tier)
  /\ call.fn = "isLanguageValidForTier" =>
       call.result = isLanguageValidForTier(call.code, call.tier)
  /\ call.fn = "getWhisperCode" => call.result = getWhisperCode(call.code)
  /\ call.fn = "getFallbackLanguage" =>
       call.result = getFallbackLanguage(call.code, call.tier)

SortedCopyReturnedTableKept ==
  /\ call.fn = "getLanguagesForTier"
  /\ call.tier = "budget"
  /\ call.result # memory.COMMON_LANGUAGES
  /\ CodesOf(call.result) = CodesOf(memory.COMMON_LANGUAGES)
  /\ memory.COMMON_LANGUAGES[1].code = "en-US"

\* C13: whatever tier getLanguagesForTier is given, recognized or not, the
\* array it returns is sorted ascending by display name, and for an
\* unrecognized tier it is the array in the order returned for "budget".
SortedForEveryTier ==
  call.fn = "getLanguagesForTier" =>
    /\ \A i \in 1..(Len(call.result) - 1) :
         localeCompare(call.result[i].name, call.result[i + 1].name) <= 0
    /\ call.tier \notin PricingTierType =>
         call.result = getLanguagesForTier("budget")

\* The order of the tiers from the narrowest to the widest.
TierRank ==
  [tier \in PricingTierType |->
     CASE tier = "budget" -> 1
       [] tier = "balanced" -> 2
       [] OTHER -> 3]

\* C14: the codes listed for a tier are listed for every tier at least as
\* high (budget, balanced, then premium-mini and premium, which list the
\* same codes); a balanced-additional code is valid for the premium tiers and
\* not for budget; and getFallbackLanguage(x, T') returns x whenever x is
\* valid for a tier not higher than T'.
TiersNested ==
  /\ (call.fn = "getLanguagesForTier" /\ call.tier \in PricingTierType) =>
       \A higher \in PricingTierType :
         TierRank[call.tier] <= TierRank[higher] =>
           CodesOf(call.result) \subseteq CodesOf(getLanguagesForTier(higher))
  /\ (/\ call.fn = "isLanguageValidForTier"
      /\ call.code \in CodesOf(BALANCED_ADDITIONAL_LANGUAGES)) =>
       /\ call.tier \in {"premium-mini", "premium"} => call.result = TRUE
       /\ call.tier = "budget" => call.result = FALSE
  /\ (call.fn = "getFallbackLanguage" /\ call.tier \in PricingTierType) =>
       \A lower \in PricingTierType :
         (/\ TierRank[lower] <= TierRank[call.tier]
          /\ isLanguageValidForTier(call.code, lower)) =>
           call.result = call.code

BalancedAdditionKeptOnUpgrade ==
  /\ call.fn = "getFallbackLanguage"
  /\ call.tier = "premium-mini"
  /\ call.code = "ca-ES"
  /\ call.code \in CodesOf(BALANCED_ADDITIONAL_LANGUAGES)
  /\ isLanguageValidForTier(call.code, "balanced")
  /\ ~isLanguageValidForTier(call.code, "budget")
  /\ call.result = "ca-ES"

\* C15: whenever the language-reset effect is at rest, the language of the
\* form is valid for the pricing tier of the form, and every create-agent
\* request sent carries a language that is valid for its pricing_tier.
LanguageValidAtRest ==
  /\ (page # "left" /\ ~effectDue) =>
       isLanguageValidForTier(form.language, form.pricingTier)
  /\ \A i \in 1..Len(submits) :
       submits[i].stage \in {"creating", "assigning"} =>
         isLanguageValidForTier(submits[i].request.language,
                                submits[i].request.pricing_tier)

RequestSentAfterLanguageReset ==
  /\ \E i \in 1..Len(submits) :
       /\ submits[i].stage = "creating"
       /\ submits[i].request.pricing_tier = "budget"
       /\ submits[i].request.language = "en-US"
  /\ downgrade

\* C16: the step is always one of 1..5; it goes up only by one from the step
\* on display, and only as the continuation of a Next click whose
\* validateStep was called for the step on display and returned true; it
\* goes down only by a click on Back (by one) or on an earlier step of the
\* progress bar.
StepMovesFromDisplayedStep ==
  /\ [](step \in 1..LastStep)
  /\ [][/\ step' > step =>
            /\ step' = step + 1
            /\ \E p \in pendingNext :
                 p.step = step /\ p.isValid /\ pendingNext' = pendingNext \ {p}
        /\ step' < step =>
            \/ HandleBack /\ step' = step - 1
            \/ \E id \in 1..LastStep : StepClick(id)]_vars

\* Step 1 lets nobody through: no workspace is listed, or the tier of the
\* form is not in the table or is under construction.
GateClosed ==
  \/ workspaces = {}
  \/ ~\E tier \in tiers :
        tier.id = form.pricingTier /\ ~tier.underConstruction

\* C17: a press of Next at step 1 while no workspace is listed, or while the
\* tier of the form is missing from PRICING_TIERS or under construction,
\* shows an error toast and its continuation leaves the step at 1; a click
\* never makes a tier under construction the tier of the form; and a
\* create-agent request is in flight only if the workspace list was not empty
\* at some press of Next.
StepOneIsGate ==
  /\ [](\A i \in 1..Len(submits) :
          submits[i].stage \in {"creating", "assigning"} => gatePassed)
  /\ [][/\ (HandleNextClick /\ step = 1 /\ GateClosed) =>
            /\ toast' \in {"workspace-first", "select-tier"}
            /\ pendingNext' = pendingNext \cup {[step |-> 1, isValid |-> FALSE]}
            /\ step' = 1
        /\ \A p \in pendingNext :
             (~p.isValid /\ HandleNextResume(p)) => step' = step
        /\ form'.pricingTier # form.pricingTier =>
             \E tier \in tiers :
               tier.id = form'.pricingTier /\ ~tier.underConstruction]_vars

NextRefusedWithoutWorkspaces ==
  /\ step = 1
  /\ workspaces = {}
  /\ toast = "workspace-first"
  /\ pendingNext = {}
  /\ ~gatePassed

\* C18: every submission was started by the Create Agent button at step 5,
\* the form's submit event starts none, and every request sent carries a
\* name of at least 2 characters and a prompt of at least 10, for values
\* with at least one workspace selected.
RequestsOnlyFromCreateButton ==
  /\ [](\A i \in 1..Len(submits) :
          /\ submits[i].via = "button"
          /\ submits[i].atStep = LastStep
          /\ submits[i].stage \in {"creating", "assigning"} =>
               /\ submits[i].request.nameLen >= 2
               /\ submits[i].request.promptLen >= 10
               /\ Cardinality(submits[i].data.selectedWorkspaces) >= 1)
  /\ [][FormSubmitEvent => submits' = submits]_vars
  /\ [][submits' # submits /\ Len(submits') > Len(submits) => PressCreate]_vars

RequestSentAfterSubmitEvent ==
  /\ prevented
  /\ \E i \in 1..Len(submits) : submits[i].stage = "creating"

\* C19: at most one create-agent request is in flight at any time, and a
\* press of Create Agent starts a submission only when no earlier submission
\* of the session is still in progress (validating, creating or assigning).
OneSubmissionAtATime ==
  /\ [](Cardinality({i \in 1..Len(submits) :
                       submits[i].stage = "creating"}) <= 1)
  /\ [][PressCreate => submits = <<>>]_vars

\* The workspace-assignment requests in flight.
PutsInFlight ==
  Cardinality({i \in 1..Len(submits) : submits[i].stage = "assigning"})

\* C20: a workspace-assignment request is in flight only for a submission
\* whose create request has succeeded, and it carries the id of the agent
\* that request returned and exactly the workspace ids of the submitted
\* values; a new one appears only in the step in which a create request
\* succeeds, and none appears when a create request fails.
PutFollowsCreate ==
  /\ [](\A i \in 1..Len(submits) :
          IF submits[i].stage = "assigning"
            THEN /\ submits[i].agent \in AgentIds
                 /\ submits[i].put.agent = submits[i].agent
                 /\ submits[i].put.workspace_ids =
                      submits[i].data.selectedWorkspaces
                 /\ submits[i].put.workspace_ids # {}
            ELSE submits[i].put = NoPut /\ submits[i].agent = "")
  /\ [][PutsInFlight' > PutsInFlight =>
          \E i \in 1..Len(submits), id \in AgentIds :
            submits[i].stage = "creating" /\ CreateSucceeds(i, id)]_vars
  /\ [][(\E i \in 1..Len(submits) : CreateFails(i)) =>
          PutsInFlight' <= PutsInFlight]_vars

PutSentForSubmittedWorkspaces ==
  \E i \in 1..Len(submits) :
    /\ submits[i].stage = "assigning"
    /\ submits[i].put = [agent |-> "agent-2", workspace_ids |-> {"ws-1", "ws-2"}]
    /\ form.selectedWorkspaces = {"ws-2"}

\* C21: whenever the create-agent request or the workspace-assignment
\* request of a submission fails, the error toast of the mutation's onError
\* is shown in that step; and no failure leaves the success toast on display
\* with the navigation to the agents page under way.
FailuresShowErrorToast ==
  /\ [][(\E i \in 1..Len(submits) : CreateFails(i) \/ AssignFails(i)) =>
          toast' = "create-failed"]_vars
  /\ [][(\E i \in 1..Len(submits) : CreateFails(i) \/ AssignFails(i)) =>
          ~(toast' = "created" /\ page' \in {"leaving", "left"})]_vars

\* The elements of an array
Elements(array) == {array[n] : n \in 1..Len(array)}

\* C22: in every request sent, enabled_tools is the set of the integration
\* ids whose list in the submitted enabledToolIds is not empty, whatever the
\* submitted enabledTools holds, and enabled_tool_ids is the submitted
\* enabledToolIds.
EnabledToolsFromToolLists ==
  \A i \in 1..Len(submits) :
    submits[i].stage \in {"creating", "assigning"} =>
      /\ \A g \in 1..Len(INTEGRATIONS_WITH_TOOLS) :
           INTEGRATIONS_WITH_TOOLS[g].id \in submits[i].request.enabled_tools
             <=> ToolsFor(submits[i].data.enabledToolIds,
                          INTEGRATIONS_WITH_TOOLS[g].id) # <<>>
      /\ submits[i].request.enabled_tools \subseteq
           {INTEGRATIONS_WITH_TOOLS[g].id :
              g \in 1..Len(INTEGRATIONS_WITH_TOOLS)}
      /\ submits[i].request.enabled_tool_ids = submits[i].data.enabledToolIds

RequestOmitsCheckedIntegrationWithoutTools ==
  \E i \in 1..Len(submits) :
    /\ submits[i].stage = "creating"
    /\ Elements(submits[i].data.enabledTools) = {"crm", "calendar"}
    /\ submits[i].request.enabled_tools = {"crm"}
    /\ submits[i].request.enabled_tool_ids =
         [k \in {"crm"} |-> <<"lookup">>]

\* C23: unchecking an integration takes it out of enabledTools and its key
\* out of enabledToolIds; checking it puts it into enabledTools with its
\* defaultEnabled tools as its list; and at all times every key of
\* enabledToolIds is in enabledTools, no integration id stands twice in
\* enabledTools and no tool id twice in a list.
ToolSelectionConsistent ==
  /\ [](/\ DOMAIN form.enabledToolIds \subseteq Elements(form.enabledTools)
        /\ Cardinality(Elements(form.enabledTools)) = Len(form.enabledTools)
        /\ \A k \in DOMAIN form.enabledToolIds :
             Cardinality(Elements(form.enabledToolIds[k])) =
               Len(form.enabledToolIds[k]))
  /\ [][\A g \in 1..Len(INTEGRATIONS_WITH_TOOLS) :
          ToggleIntegration(INTEGRATIONS_WITH_TOOLS[g]) =>
            IF INTEGRATIONS_WITH_TOOLS[g].id \in Elements(form.enabledTools)
              THEN /\ INTEGRATIONS_WITH_TOOLS[g].id
                        \notin Elements(form'.enabledTools)
                   /\ INTEGRATIONS_WITH_TOOLS[g].id
                        \notin DOMAIN form'.enabledToolIds
              ELSE /\ INTEGRATIONS_WITH_TOOLS[g].id
                        \in Elements(form'.enabledTools)
                   /\ ToolsFor(form'.enabledToolIds,
                               INTEGRATIONS_WITH_TOOLS[g].id) =
                        DefaultTools(INTEGRATIONS_WITH_TOOLS[g])]_vars

BothIntegrationsEnabledWithTools ==
  /\ form.enabledTools = <<"calendar", "crm">>
  /\ form.enabledToolIds =
       [k \in {"crm", "calendar"} |->
          IF k = "crm" THEN <<"lookup">> ELSE <<"book">>]

\* C24: the response interceptor rejects with the error it was handed,
\* whether or not localStorage or the redirect throws; for a response with
\* status 401 the token is removed (when localStorage lets it) and the
\* location becomes /login (when the assignment goes through); for every
\* other error the token and the location stay as they were.
RejectionKeepsOriginalError ==
  [][\A error \in ErrorInputs, removeThrows \in BOOLEAN, navThrows \in BOOLEAN :
       ResponseRejected(error, removeThrows, navThrows) =>
         /\ client'.settled = "rejected: error"
         /\ client'.reason = error
         /\ IF error.response /\ error.status = 401
              THEN /\ ~removeThrows => client'.token = null
                   /\ ~navThrows => client'.href = "/login"
              ELSE /\ client'.token = client.token
                   /\ client'.href = client.href]_vars

UnauthorizedClearedTokenAndRedirected ==
  /\ client.settled = "rejected: error"
  /\ client.reason.response /\ client.reason.status = 401
  /\ client.authorization = "Bearer jwt-1"
  /\ client.token = null
  /\ client.href = "/login"
  /\ client.console = <<"error: authentication failed">>

====
